---- MODULE Spec2Model ----
(***************************************************************************)
(* Committee Manager: the IndexedDB entity store (services/database) and   *)
(* the handlers of App.tsx that read and write it (committees, members,    *)
(* half-share pairing, payments, draws, cascading deletes).                *)
(***************************************************************************)
EXTENDS Integers, Sequences, FiniteSets, TLC

\* ------------------------------------------------------------------ bounds
\* The store's key generators are capped: an add to a store is allowed while
\* the store's next key is at most the explored scenario's cap for that store.
MaxCommittees == 2
MaxMembers == 4
MaxShareholders == 3
MaxPayments == 3
MaxDraws == 2

\* ------------------------------------------------------------------ inputs
CommitteeNames == {"X"}
MemberNames == {"A", "B"}
Phones == {""}
Contributions == {1000}
StartDates == {[y |-> 2024, m |-> 1, d |-> 1], [y |-> 2024, m |-> 12, d |-> 15]}
PaidOnDates == {[y |-> 2024, m |-> 1, d |-> 10], [y |-> 2024, m |-> 1, d |-> 11]}
Today == [y |-> 2024, m |-> 2, d |-> 1]
\* The device's offset from UTC: "west" is behind UTC, "east" is UTC or ahead.
TimeZones == {"east", "west"}

\* The behaviours explored are those of five scenarios, each starting from the
\* empty store and running every handler: membership over several committees,
\* payments and draws in one committee, pairs next to full members with
\* payments and a draw, cascading deletes over several committees, and dates
\* (start dates, payment dates, time zones, renames).
Scenario(scenario, nCommittees, nMembers, nPayments, nDraws, rich) ==
    [scenario |-> scenario, committees |-> nCommittees, members |-> nMembers,
     payments |-> nPayments, draws |-> nDraws,
     names |-> IF rich THEN MemberNames ELSE {"A"},
     startDates |-> IF rich THEN StartDates ELSE {[y |-> 2024, m |-> 1, d |-> 1]},
     paidOnDates |-> IF rich THEN PaidOnDates ELSE {[y |-> 2024, m |-> 1, d |-> 11]},
     timeZones |-> IF rich THEN TimeZones ELSE {"east"}]

Scenarios ==
    { Scenario("membership", MaxCommittees, MaxMembers, 0, 0, FALSE),
      Scenario("draws", 1, MaxShareholders - 1, MaxPayments, MaxDraws, FALSE),
      Scenario("pairs", 1, MaxShareholders, MaxPayments - 1, MaxDraws - 1, FALSE),
      Scenario("cascade", MaxCommittees, MaxShareholders - 1, MaxPayments - 2, MaxDraws - 1, FALSE),
      Scenario("dates", 1, MaxShareholders - 2, MaxPayments - 1, MaxDraws - 1, TRUE) }

ShareType == {"Full", "Half"}
PayerType == {"member", "pair"}

VARIABLES
    db,                   \* the five object stores and their key generators
    view,                 \* App.view: which screen is mounted
    selectedCommitteeId,  \* App.selectedCommitteeId (0 = null)
    ui,                   \* the mounted screen's fetched lists (React state)
    cap                   \* the scenario explored: caps on the key generators, input sets

vars == <<db, view, selectedCommitteeId, ui, cap>>

StoreNames == {"committees", "members", "pairs", "payments", "draws"}

\* ------------------------------------------------------------ entity store
\* The autoIncrement key the store gives the next added record.
nextKey(d, storeName) == d.keys[storeName]

\* store.add(item) on an autoIncrement store, item without id.
add(d, storeName, item) ==
    [d EXCEPT ![storeName] = @ \cup {[item EXCEPT !.id = nextKey(d, storeName)]},
              !.keys[storeName] = @ + 1]

\* store.put(item): replaces the record with item's id, or inserts it.
update(d, storeName, item) ==
    [d EXCEPT ![storeName] = {r \in @ : r.id # item.id} \cup {item}]

getAll(d, storeName) == d[storeName]

\* index.getAll(committeeId) on the committeeId index.
getByIndex(d, storeName, committeeId) ==
    {r \in d[storeName] : r.committeeId = committeeId}

\* Array.prototype.find on a list fetched from the store (ordered by key):
\* the matching record of lowest id, or a record of id 0 for undefined.
NoRecord == [id |-> 0]
find(S) == IF S = {} THEN NoRecord ELSE CHOOSE r \in S : \A q \in S : r.id <= q.id

\* Mutant: the draws store is left out of the cascade.
deleteCommittee_KeepDraws(d, id) ==
    [d EXCEPT !.committees = {c \in @ : c.id # id},
              !.members = {r \in @ : r.committeeId # id},
              !.pairs = {r \in @ : r.committeeId # id},
              !.payments = {r \in @ : r.committeeId # id}]

\* dbService.deleteCommittee: one readwrite transaction over the five stores
\* deletes the committee and, by the committeeId index, what belongs to it.
deleteCommittee(d, id) ==
    [d EXCEPT !.committees = {c \in @ : c.id # id},
              !.members = {r \in @ : r.committeeId # id},
              !.pairs = {r \in @ : r.committeeId # id},
              !.payments = {r \in @ : r.committeeId # id},
              !.draws = {r \in @ : r.committeeId # id}]

\* dbService.deleteCommittee, earlier version: the four lists are read by the
\* committeeId index first, then one transaction deletes the committee and
\* every listed record by its id.
deleteCommitteeEarlier(d, id) ==
    LET ids(storeName) == {r.id : r \in getByIndex(d, storeName, id)}
    IN  [d EXCEPT !.committees = {c \in @ : c.id # id},
                  !.members = {r \in @ : r.id \notin ids("members")},
                  !.pairs = {r \in @ : r.id \notin ids("pairs")},
                  !.payments = {r \in @ : r.id \notin ids("payments")},
                  !.draws = {r \in @ : r.id \notin ids("draws")}]

\* Mutant: the pairId of the member is not looked at.
deleteMemberResult_NoConflict(d, memberId) ==
    IF find({m \in d.members : m.id = memberId}).id = 0 THEN "notfound" ELSE "ok"

\* deleteMember: "ok", "notfound" or "conflict", decided before any write.
deleteMemberResult(d, memberId) ==
    LET member == find({m \in d.members : m.id = memberId})
    IN  IF member.id = 0 THEN "notfound"
        ELSE IF member.pairId # 0 THEN "conflict"
        ELSE "ok"

\* Mutant: the draws won by the member are deleted with it.
deleteMember_WithDraws(d, memberId) ==
    IF deleteMemberResult(d, memberId) # "ok" THEN d
    ELSE [d EXCEPT !.members = {m \in @ : m.id # memberId},
                   !.payments = {p \in @ : ~(p.payerId = memberId /\ p.payerType = "member")},
                   !.draws = {dr \in @ : ~(dr.winnerId = memberId /\ dr.winnerType = "member")}]

\* Mutant: the payments of the member are left in the store.
deleteMember_KeepPayments(d, memberId) ==
    IF deleteMemberResult(d, memberId) # "ok" THEN d
    ELSE [d EXCEPT !.members = {m \in @ : m.id # memberId}]

\* Mutant: the payments are matched on payerId alone, whatever the payerType.
deleteMember_AnyPayerType(d, memberId) ==
    IF deleteMemberResult(d, memberId) # "ok" THEN d
    ELSE [d EXCEPT !.members = {m \in @ : m.id # memberId},
                   !.payments = {p \in @ : p.payerId # memberId}]

\* dbService.deleteMember: one transaction over members and payments; aborted
\* with nothing written when the member is missing or paired.
deleteMember(d, memberId) ==
    IF deleteMemberResult(d, memberId) # "ok" THEN d
    ELSE [d EXCEPT !.members = {m \in @ : m.id # memberId},
                   !.payments = {p \in @ : ~(p.payerId = memberId /\ p.payerType = "member")}]

deletePairResult(d, pairId) ==
    IF find({p \in d.pairs : p.id = pairId}).id = 0 THEN "notfound" ELSE "ok"

\* Mutant: the two members of the pair are not deleted.
deletePair_KeepMembers(d, pairId) ==
    IF deletePairResult(d, pairId) # "ok" THEN d
    ELSE [d EXCEPT !.pairs = {p \in @ : p.id # pairId},
                   !.payments = {p \in @ : ~(p.payerId = pairId /\ p.payerType = "pair")}]

\* Mutant: the payments are matched on payerId alone, whatever the payerType.
deletePair_AnyPayerType(d, pairId) ==
    IF deletePairResult(d, pairId) # "ok" THEN d
    ELSE LET pair == find({p \in d.pairs : p.id = pairId})
         IN  [d EXCEPT !.members = {m \in @ : m.id # pair.member1Id /\ m.id # pair.member2Id},
                       !.pairs = {p \in @ : p.id # pairId},
                       !.payments = {p \in @ : p.payerId # pairId}]

\* dbService.deletePair: one transaction; aborted with nothing written when the
\* pair is not found.
deletePair(d, pairId) ==
    IF deletePairResult(d, pairId) # "ok" THEN d
    ELSE LET pair == find({p \in d.pairs : p.id = pairId})
         IN  [d EXCEPT !.members = {m \in @ : m.id # pair.member1Id /\ m.id # pair.member2Id},
                       !.pairs = {p \in @ : p.id # pairId},
                       !.payments = {p \in @ : ~(p.payerId = pairId /\ p.payerType = "pair")}]

\* ------------------------------------------------------------ derived values
\* The shareholder list of PaymentTracker and DrawManager: full members, then pairs.
shareholders(members, pairs) ==
    {[id |-> m.id, type |-> "member", name |-> m.name] : m \in {x \in members : x.shareType = "Full"}}
    \cup {[id |-> p.id, type |-> "pair", name |-> p.name] : p \in pairs}

\* Mutant: every member counted, Half-share members too.
effectiveDuration_AllMembers(members, pairs) ==
    Cardinality(members) + Cardinality(pairs)

\* CommitteeDetail.effectiveDuration.
effectiveDuration(members, pairs) ==
    Cardinality({m \in members : m.shareType = "Full"}) + Cardinality(pairs)

\* Dashboard: the duration shown on committee c's card.
dashboardDuration(c, members, pairs) ==
    Cardinality({m \in members : m.committeeId = c.id /\ m.shareType = "Full"})
    + Cardinality({p \in pairs : p.committeeId = c.id})

\* Dashboard: the progress shown on committee c's card, a percentage kept as
\* the fraction num / den (0 when the duration is 0).
dashboardProgress(c, members, pairs, draws) ==
    LET duration == dashboardDuration(c, members, pairs)
        committeeDraws == {dr \in draws : dr.committeeId = c.id}
    IN  IF duration > 0
        THEN [num |-> Cardinality(committeeDraws) * 100, den |-> duration]
        ELSE [num |-> 0, den |-> 1]

\* getMonthHeaders: the month indexes shown.
monthHeaders(duration) == 0 .. (duration - 1)

\* ------------------------------------------------------------------ dates
\* new Date("YYYY-MM-DD") is UTC midnight; getFullYear/getMonth read it in
\* local time, which west of UTC is still the previous day.
localYearMonth(date, tz) ==
    IF tz = "west" /\ date.d = 1
    THEN IF date.m = 1 THEN [y |-> date.y - 1, m0 |-> 11] ELSE [y |-> date.y, m0 |-> date.m - 2]
    ELSE [y |-> date.y, m0 |-> date.m - 1]

\* new Date(year, month0 + month, 10): the month overflow rolls into the year.
dueDate(startDate, month, tz) ==
    LET s == localYearMonth(startDate, tz)
    IN  [y |-> s.y + ((s.m0 + month) \div 12), m |-> ((s.m0 + month) % 12) + 1, d |-> 10]

dateAfter(a, b) ==
    \/ a.y > b.y
    \/ a.y = b.y /\ a.m > b.m
    \/ a.y = b.y /\ a.m = b.m /\ a.d > b.d

\* Mutant: a payment on time is stored as Pending.
paymentStatus_Pending(paidOnDate, startDate, month, tz) ==
    IF dateAfter(paidOnDate, dueDate(startDate, month, tz)) THEN "Late" ELSE "Pending"

\* handleSavePayment: paymentDate > dueDate ? 'Late' : 'Paid', the payment date
\* read as a local date.
paymentStatus(paidOnDate, startDate, month, tz) ==
    IF dateAfter(paidOnDate, dueDate(startDate, month, tz)) THEN "Late" ELSE "Paid"

\* ------------------------------------------------------------------ fetch
\* Dashboard.fetchData.
dashboardFetchData(d) ==
    [committees |-> getAll(d, "committees"), members |-> getAll(d, "members"),
     pairs |-> getAll(d, "pairs"), payments |-> {}, draws |-> getAll(d, "draws")]

\* Mutant: the members of all committees are fetched (getMembers for
\* getMembersByCommittee).
detailFetchData_AllMembers(d, u, committeeId) ==
    LET comm == find({c \in getAll(d, "committees") : c.id = committeeId})
    IN  IF comm.id = 0 THEN [u EXCEPT !.committees = {}]
        ELSE [committees |-> {comm},
              members |-> getAll(d, "members"),
              pairs |-> getByIndex(d, "pairs", committeeId),
              payments |-> getByIndex(d, "payments", committeeId),
              draws |-> getByIndex(d, "draws", committeeId)]

\* CommitteeDetail.fetchData: the lists are set only when the committee is found.
detailFetchData(d, u, committeeId) ==
    LET comm == find({c \in getAll(d, "committees") : c.id = committeeId})
    IN  IF comm.id = 0 THEN [u EXCEPT !.committees = {}]
        ELSE [committees |-> {comm},
              members |-> getByIndex(d, "members", committeeId),
              pairs |-> getByIndex(d, "pairs", committeeId),
              payments |-> getByIndex(d, "payments", committeeId),
              draws |-> getByIndex(d, "draws", committeeId)]

EmptyUi == [committees |-> {}, members |-> {}, pairs |-> {}, payments |-> {}, draws |-> {}]

\* ------------------------------------------------------------------ init
Init ==
    /\ db = [committees |-> {}, members |-> {}, pairs |-> {}, payments |-> {}, draws |-> {},
             keys |-> [s \in StoreNames |-> 1]]
    /\ view = "dashboard"
    /\ selectedCommitteeId = 0
    /\ ui = EmptyUi
    /\ cap \in Scenarios

\* ------------------------------------------------------------ pairing
\* Mutant: the test on pairId inverted (m.pairId for !m.pairId).
unpairedHalfMember_Paired(allMembers) ==
    find({m \in allMembers : m.shareType = "Half" /\ m.pairId # 0})

\* MemberForm.handleSubmit: the waiting half-share member, if any.
unpairedHalfMember(allMembers) ==
    find({m \in allMembers : m.shareType = "Half" /\ m.pairId = 0})

pairName(name1, name2) == name1 \o " & " \o name2

\* Mutant: member1Id and member2Id exchanged.
newPair_Swapped(committeeId, member1, createdMemberId, name) ==
    [id |-> 0, committeeId |-> committeeId, member1Id |-> createdMemberId,
     member2Id |-> member1.id, name |-> pairName(member1.name, name)]

newPair(committeeId, member1, createdMemberId, name) ==
    [id |-> 0, committeeId |-> committeeId, member1Id |-> member1.id,
     member2Id |-> createdMemberId, name |-> pairName(member1.name, name)]

\* Mutant: the last updateMember writes the added member without the pairId.
memberFormSubmit_NoPairIdOnAdded(d, committee, allMembers, name, phone, shareType) ==
    LET newMember == [id |-> 0, committeeId |-> committee.id, name |-> name,
                      phone |-> phone, shareType |-> shareType, pairId |-> 0]
        waiting == unpairedHalfMember(allMembers)
        createdMemberId == nextKey(d, "members")
        d1 == add(d, "members", newMember)
        newPairId == nextKey(d1, "pairs")
        d2 == add(d1, "pairs", newPair(committee.id, waiting, createdMemberId, name))
        d3 == update(d2, "members", [waiting EXCEPT !.pairId = newPairId])
        d4 == update(d3, "members", [newMember EXCEPT !.id = createdMemberId])
    IN  IF shareType = "Half" /\ waiting.id # 0 THEN d4 ELSE d1

\* MemberForm.handleSubmit: the store after its awaited writes, in order.
memberFormSubmit(d, committee, allMembers, name, phone, shareType) ==
    LET newMember == [id |-> 0, committeeId |-> committee.id, name |-> name,
                      phone |-> phone, shareType |-> shareType, pairId |-> 0]
        waiting == unpairedHalfMember(allMembers)
        createdMemberId == nextKey(d, "members")
        d1 == add(d, "members", newMember)
        newPairId == nextKey(d1, "pairs")
        d2 == add(d1, "pairs", newPair(committee.id, waiting, createdMemberId, name))
        d3 == update(d2, "members", [waiting EXCEPT !.pairId = newPairId])
        d4 == update(d3, "members",
                     [newMember EXCEPT !.id = createdMemberId, !.pairId = newPairId])
    IN  IF shareType = "Half" /\ waiting.id # 0 THEN d4 ELSE d1

\* MemberForm.handleSubmit when its awaited write number failedStep is rejected
\* by the store (request.onerror): each write is a transaction of its own, the
\* writes before the rejected one are committed, the rejected one and those
\* after it are not made.
memberFormSubmitFailing(d, committee, allMembers, name, phone, shareType, failedStep) ==
    LET newMember == [id |-> 0, committeeId |-> committee.id, name |-> name,
                      phone |-> phone, shareType |-> shareType, pairId |-> 0]
        waiting == unpairedHalfMember(allMembers)
        createdMemberId == nextKey(d, "members")
        d1 == add(d, "members", newMember)
        newPairId == nextKey(d1, "pairs")
        d2 == add(d1, "pairs", newPair(committee.id, waiting, createdMemberId, name))
        d3 == update(d2, "members", [waiting EXCEPT !.pairId = newPairId])
    IN  CASE failedStep = 1 -> d
          [] failedStep = 2 -> d1
          [] failedStep = 3 -> d2
          [] failedStep = 4 -> d3

\* The number of awaited writes of MemberForm.handleSubmit.
memberFormSubmitSteps(allMembers, shareType) ==
    IF shareType = "Half" /\ unpairedHalfMember(allMembers).id # 0 THEN 4 ELSE 1

\* MemberEditForm.handleSubmit.
memberEditFormSubmit(d, member, name, phone) ==
    update(d, "members", [member EXCEPT !.name = name, !.phone = phone])

\* PairEditForm.handleSubmit: the three puts of Promise.all.
pairEditFormSubmit(d, pair, member1, member2, name1, phone1, name2, phone2) ==
    update(update(update(d, "members", [member1 EXCEPT !.name = name1, !.phone = phone1]),
                  "members", [member2 EXCEPT !.name = name2, !.phone = phone2]),
           "pairs", [pair EXCEPT !.name = pairName(name1, name2)])

\* CommitteeDetail.individualMembers: the members listed with edit and delete buttons.
individualMembers(members) == {m \in members : m.shareType = "Full" \/ m.pairId = 0}

\* ------------------------------------------------------------ payments
\* Mutant: the month compared one off (p.month === month + 1).
getPaymentForCell_NextMonth(payments, shareholderId, shareholderType, month) ==
    find({p \in payments : p.payerId = shareholderId /\ p.payerType = shareholderType
                           /\ p.month = month + 1})

\* PaymentTracker.getPaymentForCell.
getPaymentForCell(payments, shareholderId, shareholderType, month) ==
    find({p \in payments : p.payerId = shareholderId /\ p.payerType = shareholderType
                           /\ p.month = month})

\* PaymentTracker.handleSavePayment.
handleSavePayment(d, committee, payment, shareholderId, shareholderType, month, paidOnDate, tz) ==
    LET status == paymentStatus(paidOnDate, committee.startDate, month, tz)
    IN  IF payment.id # 0
        THEN update(d, "payments", [payment EXCEPT !.status = status, !.paidOn = paidOnDate])
        ELSE add(d, "payments",
                 [id |-> 0, committeeId |-> committee.id, payerId |-> shareholderId,
                  payerType |-> shareholderType, month |-> month, status |-> status,
                  paidOn |-> paidOnDate])

\* ------------------------------------------------------------ draws
\* The key `${type}-${id}` of a shareholder or of a draw's winner.
shKey(type, id) == <<type, id>>

\* Mutant: the winners of other months are not excluded.
eligibleForDraw_NoExclusion(draws, shs, selectedMonth) == shs

\* DrawManager.eligibleForDraw for a selected month.
eligibleForDraw(draws, shs, selectedMonth) ==
    LET otherMonthsWinners == {shKey(dr.winnerType, dr.winnerId) :
                                  dr \in {x \in draws : x.month # selectedMonth}}
    IN  {sh \in shs : shKey(sh.type, sh.id) \notin otherMonthsWinners}

\* Mutant: only status Paid counts as collected, Late does not.
canConductDraw_PaidOnly(shs, payments, draws, month) ==
    LET totalShareholders == Cardinality(shs)
        paymentsForMonth == Cardinality({p \in payments : p.month = month /\ p.status = "Paid"})
        hasDraw == \E dr \in draws : dr.month = month
    IN  IF totalShareholders = 0 THEN FALSE
        ELSE paymentsForMonth = totalShareholders /\ ~hasDraw

\* DrawManager.canConductDraw.
canConductDraw(shs, payments, draws, month) ==
    LET totalShareholders == Cardinality(shs)
        paymentsForMonth == Cardinality({p \in payments :
                                p.month = month /\ (p.status = "Paid" \/ p.status = "Late")})
        hasDraw == \E dr \in draws : dr.month = month
    IN  IF totalShareholders = 0 THEN FALSE
        ELSE paymentsForMonth = totalShareholders /\ ~hasDraw

\* DrawManager render: the draw shown on a month's row (id 0: the Conduct Draw button).
drawForMonth(draws, month) == find({dr \in draws : dr.month = month})

\* Mutant: openDrawModal never finds the month's draw.
editingDraw_Never(draws, month) == NoRecord

\* DrawManager.openDrawModal: the draw being edited, id 0 when the month has none.
editingDraw(draws, month) == find({dr \in draws : dr.month = month})

\* DrawWinnerSelectionModal: the keys that can be confirmed (a radio of the
\* eligible list, or the preselected current winner when editing).
selectable(draws, shs, month) ==
    {shKey(sh.type, sh.id) : sh \in eligibleForDraw(draws, shs, month)}
    \cup (IF editingDraw(draws, month).id # 0
          THEN {shKey(editingDraw(draws, month).winnerType, editingDraw(draws, month).winnerId)}
          ELSE {})

\* DrawManager.handleConfirmWinner.
handleConfirmWinner(d, committee, editing, selectedMonth, winnerType, winnerId) ==
    IF editing.id # 0
    THEN update(d, "draws", [editing EXCEPT !.winnerId = winnerId, !.winnerType = winnerType])
    ELSE add(d, "draws",
             [id |-> 0, committeeId |-> committee.id, month |-> selectedMonth,
              winnerId |-> winnerId, winnerType |-> winnerType, drawDate |-> Today])

\* ------------------------------------------------------------ committees
\* Mutant: an edit stores the form's default, allowHalfShare false.
committeeFormSubmit_DefaultFlag(d, committeeToEdit, name, contribution, startDate, allowHalfShare) ==
    IF committeeToEdit.id # 0
    THEN update(d, "committees",
                [committeeToEdit EXCEPT !.name = name, !.contribution = contribution,
                                        !.startDate = startDate, !.allowHalfShare = FALSE])
    ELSE add(d, "committees",
             [id |-> 0, name |-> name, contribution |-> contribution,
              startDate |-> startDate, allowHalfShare |-> allowHalfShare])

\* CommitteeForm.handleSubmit.
committeeFormSubmit(d, committeeToEdit, name, contribution, startDate, allowHalfShare) ==
    IF committeeToEdit.id # 0
    THEN update(d, "committees",
                [committeeToEdit EXCEPT !.name = name, !.contribution = contribution,
                                        !.startDate = startDate,
                                        !.allowHalfShare = allowHalfShare])
    ELSE add(d, "committees",
             [id |-> 0, name |-> name, contribution |-> contribution,
              startDate |-> startDate, allowHalfShare |-> allowHalfShare])

\* ------------------------------------------------------------ actions
\* The committee shown by CommitteeDetail (id 0 while none is loaded).
committee == find(ui.committees)
detailDuration == effectiveDuration(ui.members, ui.pairs)
detailShareholders == shareholders(ui.members, ui.pairs)
OnDetail == view = "committee_detail" /\ committee.id # 0

navigateToCommittee ==
    /\ view = "dashboard"
    /\ \E c \in ui.committees :
        /\ c.id # 0
        /\ view' = "committee_detail"
        /\ selectedCommitteeId' = c.id
        /\ ui' = detailFetchData(db, EmptyUi, c.id)
    /\ UNCHANGED <<db, cap>>

navigateToDashboard ==
    /\ view \in {"committee_detail", "backup_restore"}
    /\ view' = "dashboard"
    /\ selectedCommitteeId' = 0
    /\ ui' = dashboardFetchData(db)
    /\ UNCHANGED <<db, cap>>

CreateCommittee ==
    /\ view = "dashboard"
    /\ nextKey(db, "committees") <= cap.committees
    /\ \E name \in CommitteeNames, contribution \in Contributions,
          startDate \in cap.startDates, allowHalfShare \in BOOLEAN :
        /\ name # "" /\ contribution > 0
        /\ db' = committeeFormSubmit(db, NoRecord, name, contribution, startDate, allowHalfShare)
    /\ ui' = dashboardFetchData(db')
    /\ UNCHANGED <<view, selectedCommitteeId, cap>>

\* The allowHalfShare checkbox is disabled when editing: it keeps the loaded value.
EditCommittee ==
    /\ view = "dashboard"
    /\ \E c \in ui.committees, name \in CommitteeNames, contribution \in Contributions,
          startDate \in cap.startDates :
        /\ name # "" /\ contribution > 0
        /\ db' = committeeFormSubmit(db, c, name, contribution, startDate, c.allowHalfShare)
    /\ ui' = dashboardFetchData(db')
    /\ UNCHANGED <<view, selectedCommitteeId, cap>>

confirmDeleteCommittee ==
    /\ view = "dashboard"
    /\ \E c \in ui.committees :
        /\ c.id # 0
        /\ \/ db' = deleteCommittee(db, c.id)
           \/ db' = deleteCommitteeEarlier(db, c.id)
    /\ ui' = dashboardFetchData(db')
    /\ UNCHANGED <<view, selectedCommitteeId, cap>>

AddMember ==
    /\ OnDetail
    /\ nextKey(db, "members") <= cap.members
    /\ \E name \in cap.names, phone \in Phones, shareType \in ShareType :
        /\ name # ""
        /\ shareType = "Half" => committee.allowHalfShare
        /\ db' = memberFormSubmit(db, committee, ui.members, name, phone, shareType)
    /\ ui' = detailFetchData(db', ui, selectedCommitteeId)
    /\ UNCHANGED <<view, selectedCommitteeId, cap>>

EditMember ==
    /\ OnDetail
    /\ \E m \in individualMembers(ui.members), name \in cap.names, phone \in Phones :
        /\ name # ""
        /\ db' = memberEditFormSubmit(db, m, name, phone)
    /\ ui' = detailFetchData(db', ui, selectedCommitteeId)
    /\ UNCHANGED <<view, selectedCommitteeId, cap>>

EditPair ==
    /\ OnDetail
    /\ \E p \in ui.pairs, name1 \in cap.names, name2 \in cap.names, phone \in Phones :
        LET member1 == find({m \in ui.members : m.id = p.member1Id})
            member2 == find({m \in ui.members : m.id = p.member2Id})
        IN  /\ member1.id # 0 /\ member2.id # 0
            /\ db' = pairEditFormSubmit(db, p, member1, member2, name1, phone, name2, phone)
    /\ ui' = detailFetchData(db', ui, selectedCommitteeId)
    /\ UNCHANGED <<view, selectedCommitteeId, cap>>

\* fetchData runs only when the delete resolved; a rejection leaves the lists.
confirmDeleteMember ==
    /\ OnDetail
    /\ \E m \in individualMembers(ui.members) :
        /\ m.id # 0
        /\ db' = deleteMember(db, m.id)
        /\ ui' = IF deleteMemberResult(db, m.id) = "ok"
                 THEN detailFetchData(db', ui, selectedCommitteeId) ELSE ui
    /\ UNCHANGED <<view, selectedCommitteeId, cap>>

confirmDeletePair ==
    /\ OnDetail
    /\ \E p \in ui.pairs :
        /\ p.id # 0
        /\ db' = deletePair(db, p.id)
        /\ ui' = IF deletePairResult(db, p.id) = "ok"
                 THEN detailFetchData(db', ui, selectedCommitteeId) ELSE ui
    /\ UNCHANGED <<view, selectedCommitteeId, cap>>

SavePayment ==
    /\ OnDetail
    /\ \E sh \in detailShareholders, month \in monthHeaders(detailDuration),
          paidOnDate \in cap.paidOnDates, tz \in cap.timeZones :
        LET payment == getPaymentForCell(ui.payments, sh.id, sh.type, month)
        IN  /\ payment.id = 0 => nextKey(db, "payments") <= cap.payments
            /\ db' = handleSavePayment(db, committee, payment, sh.id, sh.type, month,
                                       paidOnDate, tz)
    /\ ui' = detailFetchData(db', ui, selectedCommitteeId)
    /\ UNCHANGED <<view, selectedCommitteeId, cap>>

\* A month's button (Conduct Draw, disabled unless canConductDraw, or the edit
\* button of a month with a draw), openDrawModal, a selection, handleConfirmWinner.
ConfirmWinner ==
    /\ OnDetail
    /\ \E month \in monthHeaders(detailDuration) :
        LET editing == editingDraw(ui.draws, month)
        IN  /\ \/ drawForMonth(ui.draws, month).id # 0
                \/ canConductDraw(detailShareholders, ui.payments, ui.draws, month)
            /\ editing.id = 0 => nextKey(db, "draws") <= cap.draws
            /\ \E winner \in selectable(ui.draws, detailShareholders, month) :
                db' = handleConfirmWinner(db, committee, editing, month, winner[1], winner[2])
    /\ ui' = detailFetchData(db', ui, selectedCommitteeId)
    /\ UNCHANGED <<view, selectedCommitteeId, cap>>

Next ==
    \/ navigateToCommittee
    \/ navigateToDashboard
    \/ CreateCommittee
    \/ EditCommittee
    \/ confirmDeleteCommittee
    \/ AddMember
    \/ EditMember
    \/ EditPair
    \/ confirmDeleteMember
    \/ confirmDeletePair
    \/ SavePayment
    \/ ConfirmWinner

Spec == Init /\ [][Next]_vars

\* ------------------------------------------------- backup and restore
\* A value of one of the five keys of a parsed backup document: an array of
\* items, another truthy value without forEach (an object, a number), or a
\* missing or falsy value. An item of id -1 stands for an item the store cannot
\* take a key from (a primitive, an id that is no valid key): add throws on it.
Array(items) == [kind |-> "array", items |-> items]
NotAnArray == [kind |-> "object", items |-> <<>>]
Missing == [kind |-> "missing", items |-> <<>>]
Uninsertable == [id |-> -1]

BackupCommittee ==
    [id |-> 1, name |-> "X", contribution |-> 1000,
     startDate |-> [y |-> 2024, m |-> 1, d |-> 1], allowHalfShare |-> TRUE]
BackupMember ==
    [id |-> 1, committeeId |-> 1, name |-> "A", phone |-> "", shareType |-> "Full", pairId |-> 0]
BackupPayment ==
    [id |-> 1, committeeId |-> 1, payerId |-> 1, payerType |-> "member", month |-> 0,
     status |-> "Late", paidOn |-> [y |-> 2024, m |-> 1, d |-> 11]]
BackupDraw ==
    [id |-> 1, committeeId |-> 1, month |-> 0, winnerId |-> 1, winnerType |-> "member",
     drawDate |-> Today]

BackupGood ==
    [committees |-> Array(<<BackupCommittee>>), members |-> Array(<<BackupMember>>),
     pairs |-> Array(<<>>), payments |-> Array(<<BackupPayment>>),
     draws |-> Array(<<BackupDraw>>)]

\* The files offered to the import: a good backup, an empty one, one with a
\* member id twice, one whose pairs value is no array, one with a payment the
\* store cannot insert, and the good backup without one of its keys.
BackupDocuments ==
    { BackupGood,
      [s \in StoreNames |-> Array(<<>>)],
      [BackupGood EXCEPT !.members = Array(<<BackupMember, BackupMember>>)],
      [BackupGood EXCEPT !.pairs = NotAnArray],
      [BackupGood EXCEPT !.payments = Array(<<BackupPayment, Uninsertable>>)] }
    \cup {[BackupGood EXCEPT ![s] = Missing] : s \in StoreNames}

\* store.getAll(): the records in the order of their keys.
RECURSIVE getAllInKeyOrder(_)
getAllInKeyOrder(S) ==
    IF S = {} THEN <<>> ELSE <<find(S)>> \o getAllInKeyOrder(S \ {find(S)})

\* Mutant: the draws are left out of the snapshot.
exportData_NoDraws(d) ==
    [storeName \in StoreNames |->
        IF storeName = "draws" THEN Array(<<>>)
        ELSE Array(getAllInKeyOrder(getAll(d, storeName)))]

\* dbService.exportData, written to the backup file and parsed again by
\* onFileSelected: five arrays of records with their ids.
exportData(d) ==
    [storeName \in StoreNames |-> Array(getAllInKeyOrder(getAll(d, storeName)))]

\* The order in which importData walks the five keys.
ImportOrder == <<"committees", "members", "pairs", "payments", "draws">>

\* Mutant: the draws key is not looked at.
validBackup_NoDraws(data) ==
    \A storeName \in StoreNames \ {"draws"} : data[storeName].kind # "missing"

\* onFileSelected: the basic validation, every key truthy.
validBackup(data) == \A storeName \in StoreNames : data[storeName].kind # "missing"

\* The items of a key for which store.add was called before forEach threw (on
\* a value without forEach: none; on an uninsertable item: those before it).
addedBeforeThrow(value) ==
    IF value.kind # "array" THEN <<>>
    ELSE LET bad == {i \in 1 .. Len(value.items) : value.items[i].id < 0}
         IN  IF bad = {} THEN value.items
             ELSE SubSeq(value.items, 1, (CHOOSE i \in bad : \A j \in bad : i <= j) - 1)

throws(value) == value.kind # "array" \/ \E i \in 1 .. Len(value.items) : value.items[i].id < 0

\* The position in ImportOrder of the first key on which importData throws, or
\* 6 when it walks all five.
throwsAt(data) ==
    LET at == {k \in 1 .. 5 : throws(data[ImportOrder[k]])}
    IN  IF at = {} THEN 6 ELSE CHOOSE k \in at : \A j \in at : k <= j

\* The add requests queued on a store before importData returned or threw.
queuedAdds(data, storeName) ==
    LET k == CHOOSE i \in 1 .. 5 : ImportOrder[i] = storeName
    IN  IF k < throwsAt(data) THEN data[storeName].items
        ELSE IF k = throwsAt(data) THEN addedBeforeThrow(data[storeName])
        ELSE <<>>

\* A queued add fails (ConstraintError) when an earlier add of the same store
\* took its id: the error aborts the transaction.
constraintError(data) ==
    \E storeName \in StoreNames :
        LET q == queuedAdds(data, storeName)
        IN  \E i \in 1 .. Len(q), j \in 1 .. Len(q) : i < j /\ q[i].id = q[j].id

maxId(q) ==
    IF Len(q) = 0 THEN 0
    ELSE LET ids == {q[i].id : i \in 1 .. Len(q)} IN CHOOSE x \in ids : \A y \in ids : y <= x

\* dbService.importData: one transaction clears the five stores and queues
\* the adds. An exception thrown while queuing rejects the promise but does not
\* abort the transaction, which commits what was queued; a failed add request
\* aborts it. ok: the promise resolved. An add with an explicit id moves the
\* key generator past it; clear does not reset the generator.
importData(d, data) ==
    IF constraintError(data) THEN [db |-> d, ok |-> FALSE]
    ELSE [db |-> [storeName \in StoreNames \cup {"keys"} |->
                    IF storeName = "keys"
                    THEN [n \in StoreNames |->
                            IF maxId(queuedAdds(data, n)) + 1 > d.keys[n]
                            THEN maxId(queuedAdds(data, n)) + 1 ELSE d.keys[n]]
                    ELSE {queuedAdds(data, storeName)[i] :
                             i \in 1 .. Len(queuedAdds(data, storeName))}],
          ok |-> throwsAt(data) = 6]

navigateToBackupRestore ==
    /\ view = "dashboard"
    /\ view' = "backup_restore"
    /\ ui' = EmptyUi
    /\ UNCHANGED <<db, selectedCommitteeId, cap>>

\* BackupRestore.onFileSelected on a parsed file: the store afterwards, whether
\* importData was called and whether it resolved.
onFileSelected(d, data) ==
    IF ~validBackup(data) THEN [db |-> d, called |-> FALSE, ok |-> FALSE]
    ELSE [db |-> importData(d, data).db, called |-> TRUE, ok |-> importData(d, data).ok]

\* BackupRestore.onFileSelected on one of the offered files or on the backup
\* just exported from the store: a file that fails the validation or whose
\* import is rejected leaves the screen as it is; after a resolved import the
\* page is reloaded.
ImportBackup ==
    /\ view = "backup_restore"
    /\ \E data \in BackupDocuments \cup {exportData(db)} :
        /\ db' = onFileSelected(db, data).db
        /\ IF onFileSelected(db, data).ok
           THEN view' = "dashboard" /\ ui' = dashboardFetchData(db')
           ELSE UNCHANGED <<view, ui>>
    /\ UNCHANGED <<selectedCommitteeId, cap>>

ImportNext ==
    \/ Next
    \/ navigateToBackupRestore
    \/ ImportBackup

ImportSpec == Init /\ [][ImportNext]_vars

\* Export and import over one committee's books: members, a pair, payments and
\* a draw, written by the handlers or left by an earlier import.
BackupScenario ==
    Scenario("backup", 1, MaxShareholders, MaxPayments - 2, MaxDraws - 1, FALSE)

BackupInit ==
    /\ db = [committees |-> {}, members |-> {}, pairs |-> {}, payments |-> {}, draws |-> {},
             keys |-> [s \in StoreNames |-> 1]]
    /\ view = "dashboard"
    /\ selectedCommitteeId = 0
    /\ ui = EmptyUi
    /\ cap = BackupScenario

BackupSpec == BackupInit /\ [][ImportNext]_vars

\* ------------------------------------------------- repeated submissions
\* The submit buttons stay enabled while a handler awaits its writes. A second
\* click runs the handler again on the props of the same render, the lists
\* fetched before the first submission wrote; the re-fetches follow both.
AddMemberTwice ==
    /\ OnDetail
    /\ nextKey(db, "members") + 1 <= cap.members
    /\ \E name \in cap.names, phone \in Phones, shareType \in ShareType :
        /\ name # ""
        /\ shareType = "Half" => committee.allowHalfShare
        /\ db' = memberFormSubmit(
                    memberFormSubmit(db, committee, ui.members, name, phone, shareType),
                    committee, ui.members, name, phone, shareType)
    /\ ui' = detailFetchData(db', ui, selectedCommitteeId)
    /\ UNCHANGED <<view, selectedCommitteeId, cap>>

SavePaymentTwice ==
    /\ OnDetail
    /\ \E sh \in detailShareholders, month \in monthHeaders(detailDuration),
          paidOnDate \in cap.paidOnDates, tz \in cap.timeZones :
        LET payment == getPaymentForCell(ui.payments, sh.id, sh.type, month)
        IN  /\ payment.id = 0 => nextKey(db, "payments") + 1 <= cap.payments
            /\ db' = handleSavePayment(
                        handleSavePayment(db, committee, payment, sh.id, sh.type, month,
                                          paidOnDate, tz),
                        committee, payment, sh.id, sh.type, month, paidOnDate, tz)
    /\ ui' = detailFetchData(db', ui, selectedCommitteeId)
    /\ UNCHANGED <<view, selectedCommitteeId, cap>>

ConfirmWinnerTwice ==
    /\ OnDetail
    /\ \E month \in monthHeaders(detailDuration) :
        LET editing == editingDraw(ui.draws, month)
        IN  /\ \/ drawForMonth(ui.draws, month).id # 0
                \/ canConductDraw(detailShareholders, ui.payments, ui.draws, month)
            /\ editing.id = 0 => nextKey(db, "draws") + 1 <= cap.draws
            /\ \E winner \in selectable(ui.draws, detailShareholders, month) :
                db' = handleConfirmWinner(
                        handleConfirmWinner(db, committee, editing, month, winner[1], winner[2]),
                        committee, editing, month, winner[1], winner[2])
    /\ ui' = detailFetchData(db', ui, selectedCommitteeId)
    /\ UNCHANGED <<view, selectedCommitteeId, cap>>

StaleNext ==
    \/ Next
    \/ AddMemberTwice
    \/ SavePaymentTwice
    \/ ConfirmWinnerTwice

StaleSpec == Init /\ [][StaleNext]_vars

\* ------------------------------------------------- storage failures
\* MemberForm.handleSubmit with one of its writes rejected: the rejection is
\* not caught, so onSave (the re-fetch) and onClose are not reached.
AddMemberFails ==
    /\ OnDetail
    /\ nextKey(db, "members") <= cap.members
    /\ \E name \in cap.names, phone \in Phones, shareType \in ShareType :
        /\ name # ""
        /\ shareType = "Half" => committee.allowHalfShare
        /\ \E failedStep \in 1 .. memberFormSubmitSteps(ui.members, shareType) :
            db' = memberFormSubmitFailing(db, committee, ui.members, name, phone,
                                          shareType, failedStep)
    /\ UNCHANGED <<view, selectedCommitteeId, ui, cap>>

FailureNext ==
    \/ Next
    \/ AddMemberFails

FailureSpec == Init /\ [][FailureNext]_vars

\* ================================================================ claims
CommitteeIds == 1 .. (MaxCommittees + 1)
Months == 0 .. (MaxMembers + 1)

membersOf(d, c) == {m \in d.members : m.committeeId = c}
pairsOf(d, c) == {p \in d.pairs : p.committeeId = c}
fullMembersOf(d, c) == {m \in membersOf(d, c) : m.shareType = "Full"}
waitingMembersOf(d, c) == {m \in membersOf(d, c) : m.shareType = "Half" /\ m.pairId = 0}
SomethingDeleted(d, storeName) == Cardinality(d[storeName]) < d.keys[storeName] - 1

\* C1: after any sequence of member, pair and committee operations, each
\* followed by its re-fetch, every committee has at most one Half-share member
\* without a pairId.
C1_OneWaitingMember ==
    \A c \in CommitteeIds : Cardinality(waitingMembersOf(db, c)) <= 1

\* A committee holds a pair and a waiting member, after some member was deleted.
C1_Witness ==
    \E c \in CommitteeIds :
        /\ Cardinality(waitingMembersOf(db, c)) = 1
        /\ pairsOf(db, c) # {}
        /\ SomethingDeleted(db, "members")

\* C2: adding a Half-share member to a committee with a waiting member W creates
\* exactly one Pair (member1Id = W, member2Id = the new member), sets the pairId
\* of both to that Pair's id and raises the duration by exactly 1; adding a
\* Half-share member when none is waiting creates no Pair and leaves the
\* duration as it was.
C2_AddHalfStep ==
    LET c == committee.id
        createdId == nextKey(db, "members")
        created == find({m \in db'.members : m.id = createdId})
        waiting == waitingMembersOf(db, c)
    IN  AddMember /\ created.shareType = "Half" =>
          IF waiting # {}
          THEN \E w \in waiting, p \in db'.pairs :
                 /\ p \notin db.pairs
                 /\ db'.pairs = db.pairs \cup {p}
                 /\ p.member1Id = w.id /\ p.member2Id = createdId
                 /\ p.committeeId = c
                 /\ created.pairId = p.id
                 /\ \E w2 \in db'.members : w2.id = w.id /\ w2.pairId = p.id
                 /\ effectiveDuration(ui'.members, ui'.pairs)
                      = effectiveDuration(ui.members, ui.pairs) + 1
          ELSE /\ db'.pairs = db.pairs
               /\ created.pairId = 0
               /\ effectiveDuration(ui'.members, ui'.pairs)
                    = effectiveDuration(ui.members, ui.pairs)

C2_Pairing == [][C2_AddHalfStep]_vars

\* Two Half-share members were added to a committee with no other member: one
\* pair, duration 1.
C2_Witness ==
    /\ OnDetail
    /\ Cardinality(ui.members) = 2
    /\ Cardinality(ui.pairs) = 1
    /\ \A m \in ui.members : m.shareType = "Half" /\ m.pairId # 0
    /\ detailDuration = 1

\* C3: every stored Pair references two distinct existing Members, both Half,
\* both of the Pair's committee, both with pairId equal to the Pair's id.
C3_PairIntegrity ==
    \A p \in db.pairs :
        /\ p.member1Id # p.member2Id
        /\ \A id \in {p.member1Id, p.member2Id} :
             \E m \in db.members :
                 /\ m.id = id
                 /\ m.shareType = "Half"
                 /\ m.committeeId = p.committeeId
                 /\ m.pairId = p.id

\* A pair is stored after another pair was deleted.
C3_Witness == db.pairs # {} /\ SomethingDeleted(db, "pairs")

\* C4: no Full-share Member has a pairId, and a Half-share Member with a pairId
\* is member1 or member2 of exactly one Pair, the Pair with that id.
C4_MemberPairRef ==
    \A m \in db.members :
        /\ m.shareType = "Full" => m.pairId = 0
        /\ m.pairId # 0 =>
             LET refs == {p \in db.pairs : p.member1Id = m.id \/ p.member2Id = m.id}
             IN  Cardinality(refs) = 1 /\ \A p \in refs : p.id = m.pairId

\* A Full-share member and a pair are stored after some member was deleted.
C4_Witness ==
    /\ \E m \in db.members : m.shareType = "Full"
    /\ \E m \in db.members : m.pairId # 0
    /\ SomethingDeleted(db, "members")

\* C5: the duration displayed for a committee (Dashboard card, CommitteeDetail)
\* is the number of its stored Full-share Members plus the number of its stored
\* Pairs; a waiting Half-share Member is in no shareholder list and adds nothing.
C5_Duration ==
    /\ view = "dashboard" =>
         /\ ui.committees = db.committees
         /\ \A c \in ui.committees :
              dashboardDuration(c, ui.members, ui.pairs)
                = Cardinality(fullMembersOf(db, c.id)) + Cardinality(pairsOf(db, c.id))
    /\ OnDetail =>
         /\ detailDuration = Cardinality(fullMembersOf(db, committee.id))
                             + Cardinality(pairsOf(db, committee.id))
         /\ Cardinality(detailShareholders) = detailDuration
         /\ \A m \in waitingMembersOf(db, committee.id) :
              ~ \E sh \in detailShareholders : sh.type = "member" /\ sh.id = m.id

\* A committee is shown with a waiting Half-share member beside a shareholder.
C5_Witness ==
    /\ OnDetail
    /\ waitingMembersOf(db, committee.id) # {}
    /\ detailDuration >= 1

\* The current shareholders of committee c in the store, as (type, id) keys.
shareholderKeysOf(d, c) ==
    {shKey("member", m.id) : m \in fullMembersOf(d, c)}
    \cup {shKey("pair", p.id) : p \in pairsOf(d, c)}
drawsOf(d, c) == {dr \in d.draws : dr.committeeId = c}
paymentsOf(d, c) == {p \in d.payments : p.committeeId = c}
HasPaid(d, c, key, month) ==
    \E p \in paymentsOf(d, c) :
        /\ shKey(p.payerType, p.payerId) = key
        /\ p.month = month
        /\ p.status \in {"Paid", "Late"}

\* C6: for a committee with at least one shareholder and any month m,
\* canConductDraw(m) is true exactly when every current shareholder has a Paid
\* or Late payment for m and no draw exists for m.
C6_CanConductDraw ==
    OnDetail /\ shareholderKeysOf(db, committee.id) # {} =>
        \A month \in Months :
            canConductDraw(detailShareholders, ui.payments, ui.draws, month)
            <=> /\ \A key \in shareholderKeysOf(db, committee.id) :
                     HasPaid(db, committee.id, key, month)
                /\ ~ \E dr \in drawsOf(db, committee.id) : dr.month = month

\* A committee with two shareholders or more: one month is fully collected and
\* can be drawn, another month is drawn already.
C6_Witness ==
    /\ OnDetail
    /\ Cardinality(detailShareholders) >= 2
    /\ \E month \in Months : canConductDraw(detailShareholders, ui.payments, ui.draws, month)
    /\ ui.draws # {}

\* Some but not all shareholders have paid a month: no draw can be conducted.
C6_WitnessPartly ==
    /\ OnDetail
    /\ \E month \in Months :
         /\ \E key \in shareholderKeysOf(db, committee.id) : HasPaid(db, committee.id, key, month)
         /\ \E key \in shareholderKeysOf(db, committee.id) : ~HasPaid(db, committee.id, key, month)
         /\ ~canConductDraw(detailShareholders, ui.payments, ui.draws, month)

\* C7: no shareholder is the winner of two draws of different months in the
\* same committee.
C7_WinsOnce ==
    \A d1 \in db.draws, d2 \in db.draws :
        d1.committeeId = d2.committeeId /\ d1.month # d2.month =>
            shKey(d1.winnerType, d1.winnerId) # shKey(d2.winnerType, d2.winnerId)

\* Two months of one committee are drawn.
C7_Witness ==
    \E d1 \in db.draws, d2 \in db.draws :
        d1.committeeId = d2.committeeId /\ d1.month # d2.month

\* C8: each committee has at most one draw per month; a step that leaves a
\* draw for a month that had one keeps that record's id (the winner is
\* replaced, no record is added).
C8_Step ==
    /\ \A d1 \in db'.draws, d2 \in db'.draws :
         d1.committeeId = d2.committeeId /\ d1.month = d2.month => d1 = d2
    /\ \A d1 \in db.draws, d2 \in db'.draws :
         d1.committeeId = d2.committeeId /\ d1.month = d2.month => d1.id = d2.id

C8_OneDrawPerMonth == [][C8_Step]_vars

\* A drawn month's winner is a shareholder with no payment for that month: the
\* draw was conducted for another winner and then edited.
C8_Witness ==
    \E dr \in db.draws :
        /\ shKey(dr.winnerType, dr.winnerId) \in shareholderKeysOf(db, dr.committeeId)
        /\ ~HasPaid(db, dr.committeeId, shKey(dr.winnerType, dr.winnerId), dr.month)

\* C9: for a selected month m the shareholders offered for selection are the
\* current shareholders that did not win another month; when m has a draw its
\* current winner is offered, and no winner of another month is.
C9_Offered ==
    OnDetail =>
        \A month \in monthHeaders(detailDuration) :
            LET offered == {shKey(sh.type, sh.id) :
                               sh \in eligibleForDraw(ui.draws, detailShareholders, month)}
                others == {shKey(dr.winnerType, dr.winnerId) :
                              dr \in {x \in drawsOf(db, committee.id) : x.month # month}}
            IN  /\ offered = shareholderKeysOf(db, committee.id) \ others
                /\ \A dr \in drawsOf(db, committee.id) :
                     dr.month = month => shKey(dr.winnerType, dr.winnerId) \in offered
                /\ offered \cap others = {}

\* The part of C9 that holds: the offered set is the current shareholders minus
\* the winners of other months.
C9_OfferedSet ==
    OnDetail =>
        \A month \in monthHeaders(detailDuration) :
            LET offered == {shKey(sh.type, sh.id) :
                               sh \in eligibleForDraw(ui.draws, detailShareholders, month)}
                others == {shKey(dr.winnerType, dr.winnerId) :
                              dr \in {x \in drawsOf(db, committee.id) : x.month # month}}
            IN  offered = shareholderKeysOf(db, committee.id) \ others

\* C10: a (committee, month) that has a draw keeps a draw in the next state
\* unless the committee itself is gone.
C10_Step ==
    \A dr \in db.draws :
        (\E c \in db'.committees : c.id = dr.committeeId) =>
            \E d2 \in db'.draws : d2.committeeId = dr.committeeId /\ d2.month = dr.month

C10_DrawStays == [][C10_Step]_vars

\* A draw is stored whose winner has been deleted.
C10_Witness ==
    \E dr \in db.draws :
        shKey(dr.winnerType, dr.winnerId) \notin shareholderKeysOf(db, dr.committeeId)

\* The Payment rows of one (committee, payer, month) cell.
cellPayments(d, c, payerType, payerId, month) ==
    {p \in paymentsOf(d, c) : p.payerType = payerType /\ p.payerId = payerId /\ p.month = month}

\* C11: saving a payment for a (shareholder, month) that has a Payment row
\* changes that row's status and paidOn only and adds no row; every state has
\* at most one Payment per (committeeId, payerId, payerType, month).
C11_Step ==
    /\ \A p \in db'.payments :
         cellPayments(db', p.committeeId, p.payerType, p.payerId, p.month) = {p}
    /\ SavePayment =>
         \A old \in db.payments :
             \E new \in db'.payments :
                 /\ new.id = old.id
                 /\ [new EXCEPT !.status = old.status, !.paidOn = old.paidOn] = old
                 /\ new # old => /\ Cardinality(db'.payments) = Cardinality(db.payments)
                                 /\ db'.keys = db.keys
                                 /\ new.paidOn \in cap.paidOnDates
                                 /\ \E tz \in cap.timeZones :
                                      new.status = paymentStatus(new.paidOn, committee.startDate,
                                                                 new.month, tz)

C11_OnePaymentPerCell == [][C11_Step]_vars

\* A cell of the committee shown has its row and both payment dates are
\* offered: saving the cell again rewrites that row.
C11_Witness ==
    /\ OnDetail
    /\ Cardinality(cap.paidOnDates) > 1
    /\ \E sh \in detailShareholders, month \in monthHeaders(detailDuration) :
         getPaymentForCell(ui.payments, sh.id, sh.type, month).id # 0

\* Day 10 of calendar month (start month + month), rolling over into later years.
calendarDueDate(startDate, month) ==
    [y |-> startDate.y + ((startDate.m - 1 + month) \div 12),
     m |-> ((startDate.m - 1 + month) % 12) + 1, d |-> 10]

\* C12: a payment dated D saved for month i is stored Late if D is after day 10
\* of calendar month (start month + i) and Paid otherwise (start 2024-01-01,
\* month 0: 2024-01-10 is Paid, 2024-01-11 is Late).
C12_Step ==
    SavePayment =>
        \A p \in db'.payments \ db.payments :
            p.status = IF dateAfter(p.paidOn, calendarDueDate(committee.startDate, p.month))
                       THEN "Late" ELSE "Paid"

C12_StatusByDueDate == [][C12_Step]_vars

\* C13: every stored Payment has status Paid or Late, never Pending; a cell of
\* the payment grid is shown unpaid exactly when the store has no row for it.
C13_NoPendingRows ==
    /\ \A p \in db.payments : p.status \in {"Paid", "Late"}
    /\ OnDetail =>
         \A sh \in detailShareholders, month \in monthHeaders(detailDuration) :
             getPaymentForCell(ui.payments, sh.id, sh.type, month).id = 0
             <=> cellPayments(db, committee.id, sh.type, sh.id, month) = {}

\* The grid shown has a Paid row, a Late row and an unpaid cell.
C13_Witness ==
    /\ OnDetail
    /\ \E p \in ui.payments : p.status = "Paid"
    /\ \E p \in ui.payments : p.status = "Late"
    /\ \E sh \in detailShareholders, month \in monthHeaders(detailDuration) :
         getPaymentForCell(ui.payments, sh.id, sh.type, month).id = 0

\* C14: each committee's progress on the dashboard (draws recorded / duration,
\* shown as a percentage) is between 0 and 1 inclusive, and 0 when the
\* duration is 0, also after members or pairs with recorded draws were deleted.
C14_Progress ==
    view = "dashboard" =>
        \A c \in ui.committees :
            LET progress == dashboardProgress(c, ui.members, ui.pairs, ui.draws)
            IN  /\ 0 <= progress.num
                /\ progress.num <= 100 * progress.den
                /\ dashboardDuration(c, ui.members, ui.pairs) = 0 => progress.num = 0

OwnedStores == StoreNames \ {"committees"}

\* C15: deleteCommittee(id) removes the Committee and every Member, Pair,
\* Payment and Draw with that committeeId, leaves the records of every other
\* committee as they were, and no state holds a record of a committee that is
\* gone.
C15_Step ==
    /\ \A storeName \in OwnedStores : \A r \in db'[storeName] :
         \E c \in db'.committees : c.id = r.committeeId
    /\ confirmDeleteCommittee =>
         \E gone \in db.committees :
             /\ db'.committees = db.committees \ {gone}
             /\ \A storeName \in OwnedStores :
                  /\ \A r \in db[storeName] :
                       r.committeeId # gone.id <=> r \in db'[storeName]
                  /\ db'[storeName] \subseteq db[storeName]
             /\ db'.keys = db.keys

C15_DeleteCommittee == [][C15_Step]_vars

\* A committee with a recorded draw was deleted (only that removes a draw) and
\* a member of another committee is still stored.
C15_Witness ==
    /\ SomethingDeleted(db, "committees")
    /\ SomethingDeleted(db, "draws")
    /\ db.members # {}

PairIds == 1 .. MaxMembers
MemberIds == 1 .. (MaxMembers + 1)

\* C16: deletePair(id) on an existing Pair removes exactly the Pair, its two
\* Members and the Payments of payer (id, pair), and leaves every other record
\* of the five collections as it was; on an id that no Pair has it fails with
\* not-found and changes nothing.
C16_Step ==
    /\ confirmDeletePair =>
         \E pair \in db.pairs :
             /\ deletePairResult(db, pair.id) = "ok"
             /\ db'.pairs = db.pairs \ {pair}
             /\ db'.members = {m \in db.members : m.id \notin {pair.member1Id, pair.member2Id}}
             /\ Cardinality(db'.members) = Cardinality(db.members) - 2
             /\ db'.payments = {p \in db.payments :
                                   shKey(p.payerType, p.payerId) # shKey("pair", pair.id)}
             /\ db'.draws = db.draws
             /\ db'.committees = db.committees
             /\ db'.keys = db.keys
    /\ \A pairId \in PairIds :
         (\A p \in db.pairs : p.id # pairId) =>
             deletePairResult(db, pairId) = "notfound" /\ deletePair(db, pairId) = db

C16_DeletePair == [][C16_Step]_vars

\* The only pair of a committee was deleted with its two members and its
\* payment; the Full-share member beside it and that member's payment remain.
C16_Witness ==
    /\ db.keys.pairs = 2 /\ db.pairs = {}
    /\ db.keys.members = 4 /\ Cardinality(db.members) = 1
    /\ db.keys.payments = 3 /\ Cardinality(db.payments) = 1
    /\ \A p \in db.payments : p.payerType = "member"
    /\ Cardinality(db.committees) = 1 /\ db.keys.committees = 2

\* C17: deleteMember(id) fails with a conflict when the member has a pairId
\* and with not-found when no member has the id; in both cases the five
\* collections are left exactly as they were.
C17_DeleteMemberErrors ==
    \A memberId \in MemberIds :
        LET found == {m \in db.members : m.id = memberId}
        IN  /\ found = {} =>
                 deleteMemberResult(db, memberId) = "notfound"
                 /\ deleteMember(db, memberId) = db
            /\ (\E m \in found : m.pairId # 0) =>
                 deleteMemberResult(db, memberId) = "conflict"
                 /\ deleteMember(db, memberId) = db

\* The store holds a paired member, and the id of a deleted member is free.
C17_Witness ==
    /\ \E m \in db.members : m.pairId # 0
    /\ \E memberId \in MemberIds :
         memberId < db.keys.members /\ \A m \in db.members : m.id # memberId

\* C18: deleteMember(id) on an existing member without pairId removes exactly
\* that Member and the Payments of payer (id, member); all other Members, all
\* Pairs, the Payments of pairs (also of a pair with the same numeric id) and of
\* other members, all Draws and all Committees are left as they were.
C18_Step ==
    confirmDeleteMember =>
        \E member \in db.members :
            /\ member.pairId = 0
            /\ deleteMemberResult(db, member.id) = "ok"
            /\ db'.members = db.members \ {member}
            /\ db'.payments = {p \in db.payments :
                                  shKey(p.payerType, p.payerId) # shKey("member", member.id)}
            /\ db'.pairs = db.pairs
            /\ db'.draws = db.draws
            /\ db'.committees = db.committees
            /\ db'.keys = db.keys

C18_DeleteMember == [][C18_Step]_vars

\* Full-share member 1 was deleted with its payment; pair 1 (members 2 and 3)
\* and the payment of pair 1 remain.
C18_Witness ==
    /\ db.keys.members = 4
    /\ \A m \in db.members : m.id # 1 /\ m.pairId = 1
    /\ Cardinality(db.members) = 2
    /\ db.keys.payments = 3
    /\ Cardinality(db.payments) = 1
    /\ \A p \in db.payments : p.payerType = "pair" /\ p.payerId = 1

\* C19: when a storage step of adding a Half-share member that pairs with a
\* waiting member fails, the store is left exactly as it was before the add.
C19_Step == AddMemberFails => db' = db

C19_PairingAtomic == [][C19_Step]_vars

\* The records of a backup document's key, as a set.
backupRecords(value) == {value.items[i] : i \in 1 .. Len(value.items)}

\* C20: an import either replaces the five collections by exactly the
\* snapshot's records or leaves all five as they were, whatever fails.
C20_Step ==
    ImportBackup =>
        \/ \A storeName \in StoreNames : db'[storeName] = db[storeName]
        \/ \E data \in BackupDocuments :
             /\ \A storeName \in StoreNames : data[storeName].kind = "array"
             /\ \A storeName \in StoreNames :
                  db'[storeName] = backupRecords(data[storeName])

C20_ImportAtomic == [][C20_Step]_vars

\* C21: a document that lacks one of the five keys is rejected without a call
\* of the store and the five collections stay as they are; a document with
\* five empty arrays is accepted and leaves five empty collections.
C21_ImportValidation ==
    \A data \in BackupDocuments :
        LET result == onFileSelected(db, data)
        IN  /\ (\E storeName \in StoreNames : data[storeName].kind = "missing") =>
                 ~result.called /\ ~result.ok /\ result.db = db
            /\ (\A storeName \in StoreNames : data[storeName] = Array(<<>>)) =>
                 /\ result.called /\ result.ok
                 /\ \A storeName \in StoreNames : result.db[storeName] = {}

\* The backup screen is shown over a store that holds a committee with a
\* member, a payment and a draw.
C21_Witness ==
    /\ view = "backup_restore"
    /\ db.committees # {} /\ db.members # {} /\ db.payments # {} /\ db.draws # {}

\* C22: importing the snapshot that exportData returns in a store state yields
\* a store whose five collections hold exactly the records of that state, with
\* the same ids and field values.
C22_RoundTrip ==
    LET result == onFileSelected(db, exportData(db))
    IN  /\ result.called /\ result.ok
        /\ \A storeName \in StoreNames : result.db[storeName] = db[storeName]

\* The backup screen is shown over a store with records in all five collections
\* whose member ids have a gap.
C22_Witness ==
    /\ view = "backup_restore"
    /\ \A storeName \in StoreNames : db[storeName] # {}
    /\ SomethingDeleted(db, "members")

\* C23: an edit of a committee never changes its allowHalfShare flag: a
\* committee that stays stored keeps the value it was created with.
C23_Step ==
    \A c \in db.committees, c2 \in db'.committees :
        c.id = c2.id => c.allowHalfShare = c2.allowHalfShare

C23_AllowHalfShareKept == [][C23_Step]_vars

\* A committee that allows half shares has a payment stored Late although
\* nothing is late for its start date: the start date was edited after the
\* payment.
C23_Witness ==
    \E c \in db.committees :
        /\ c.allowHalfShare
        /\ c.startDate = [y |-> 2024, m |-> 12, d |-> 15]
        /\ \E p \in paymentsOf(db, c.id) : p.status = "Late"

\* C24: adding a Half-share member to a committee pairs it only with a waiting
\* member of that committee: a Pair created has the committeeId of both its
\* members, and the members of other committees stay as they are.
C24_Step ==
    AddMember =>
        /\ \A p \in db'.pairs \ db.pairs :
             /\ p.committeeId = committee.id
             /\ \A id \in {p.member1Id, p.member2Id} :
                  \E m \in db'.members : m.id = id /\ m.committeeId = committee.id
        /\ \A m \in db.members : m.committeeId # committee.id => m \in db'.members

C24_PairsWithinCommittee == [][C24_Step]_vars

\* A pair was formed in one committee while a Half-share member of another
\* committee was waiting, and that member still waits.
C24_Witness ==
    \E p \in db.pairs, w \in db.members :
        /\ w.committeeId # p.committeeId
        /\ w.shareType = "Half" /\ w.pairId = 0
        /\ w.id < p.member2Id

\* C25: every Draw's winner is a current shareholder of the Draw's committee,
\* an existing Full-share Member or an existing Pair, also after past winners
\* were deleted.
C25_WinnerExists ==
    \A c \in db.committees : \A dr \in drawsOf(db, c.id) :
        \/ dr.winnerType = "member" /\ \E m \in fullMembersOf(db, c.id) : m.id = dr.winnerId
        \/ dr.winnerType = "pair" /\ \E p \in pairsOf(db, c.id) : p.id = dr.winnerId

\* C26: whenever canConductDraw holds for a displayed month, some shareholder
\* is eligible to win that month, so the allowed draw can be completed.
C26_DrawCanComplete ==
    OnDetail =>
        \A month \in monthHeaders(detailDuration) :
            canConductDraw(detailShareholders, ui.payments, ui.draws, month)
                => eligibleForDraw(ui.draws, detailShareholders, month) # {}

\* C27: every Payment's payer is a current shareholder of the Payment's
\* committee, so the Paid or Late payments of a committee for a month are as
\* many as the current shareholders that have paid that month.
C27_PayerExists ==
    /\ \A p \in db.payments :
         shKey(p.payerType, p.payerId) \in shareholderKeysOf(db, p.committeeId)
    /\ \A c \in db.committees, month \in Months :
         Cardinality({p \in paymentsOf(db, c.id) :
                         p.month = month /\ p.status \in {"Paid", "Late"}})
           = Cardinality({key \in shareholderKeysOf(db, c.id) : HasPaid(db, c.id, key, month)})

\* Payments are stored after a member and a payment were deleted.
C27_Witness ==
    /\ db.payments # {}
    /\ SomethingDeleted(db, "payments")
    /\ SomethingDeleted(db, "members")
    /\ Cardinality(db.committees) = db.keys.committees - 1

\* C28: each stored Payment's status is the one the rule gives for its paidOn
\* date and the committee's current start date (Late iff paidOn is after day
\* 10 of start month + month index), also after the start date was edited.
C28_StatusCurrent ==
    \A c \in db.committees : \A p \in paymentsOf(db, c.id) :
        p.status = IF dateAfter(p.paidOn, calendarDueDate(c.startDate, p.month))
                   THEN "Late" ELSE "Paid"

\* C30: every Payment and every Draw of a committee has a month index from 0
\* up to, and not including, the committee's current duration, also after
\* members or pairs were deleted.
C30_MonthInRange ==
    \A c \in db.committees :
        LET duration == Cardinality(fullMembersOf(db, c.id)) + Cardinality(pairsOf(db, c.id))
        IN  /\ \A p \in paymentsOf(db, c.id) : p.month \in monthHeaders(duration)
            /\ \A dr \in drawsOf(db, c.id) : dr.month \in monthHeaders(duration)

\* C29: when a second add-member, save-payment or confirm-winner submission
\* decides on the list fetched before the first one wrote, the store still has
\* at most one waiting Half-share member per committee, no Member referenced by
\* two Pairs, one Payment per (shareholder, month) at most and one Draw per
\* (committee, month) at most.
C29_StaleSubmissions ==
    /\ \A c \in db.committees : Cardinality(waitingMembersOf(db, c.id)) <= 1
    /\ \A m \in db.members :
         Cardinality({p \in db.pairs : p.member1Id = m.id \/ p.member2Id = m.id}) <= 1
    /\ \A p \in db.payments :
         Cardinality(cellPayments(db, p.committeeId, p.payerType, p.payerId, p.month)) <= 1
    /\ \A dr \in db.draws :
         Cardinality({x \in drawsOf(db, dr.committeeId) : x.month = dr.month}) <= 1

====
